---- MODULE Spec2Model ----
(***************************************************************************)
(* State-machine model of ValisClient (src/src/valis-client.ts): the       *)
(* connection lifecycle, the serial command queue, the reconnection        *)
(* policy and the heartbeat monitor, together with the browser WebSocket   *)
(* and timer environment the client runs in.                               *)
(*                                                                         *)
(* The client is single threaded: every action below is one macrotask      *)
(* (a public call, a socket event or a timer callback) followed by the     *)
(* promise continuations (microtasks) it releases.                         *)
(***************************************************************************)
EXTENDS Integers, Sequences, FiniteSets, TLC

\* ---------------------------------------------------------------- bounds
MaxSockets == 2        \* sockets ever created by connect()
MaxReqs == 2           \* sendCommand calls ever made (heartbeat probes included)
RandDen == 2           \* Math.random() is drawn from {0/RandDen .. (RandDen-1)/RandDen}

\* ------------------------------------------------------------- constants
CONNECT_TIMEOUT_CODE == 4000
STALE_CODE == 4001
NORMAL_CODE == 1000    \* close code of a close() call that passes no code

Payloads == {"network", "tokens"}

\* Configurations explored: DEFAULTS, the options of the test suite, and
\* the switches reconnect / heartbeatIntervalMs / reconnectJitter.
Delays == { [initial |-> 500, max |-> 12000], [initial |-> 1, max |-> 2] }
JitterPcts == {0, 20}

\* every configuration of the backoff
BackoffOptions == [reconnect : {TRUE}, heartbeat : {FALSE},
                   delays : Delays, jitterPct : JitterPcts]

\* DEFAULTS' delays without jitter and heartbeatIntervalMs: 0 (as the test
\* suite configures it), with reconnect on and off
Options == [reconnect : BOOLEAN, heartbeat : {FALSE},
            delays : {[initial |-> 500, max |-> 12000]}, jitterPct : {0}]

\* the same with a positive heartbeatIntervalMs
HbOptions == [reconnect : BOOLEAN, heartbeat : {TRUE},
              delays : {[initial |-> 500, max |-> 12000]}, jitterPct : {0}]

VARIABLES
    opts,              \* this.opts (immutable after construction)
    status,            \* this.status
    ws,                \* this.ws: socket id, 0 = null
    connectPromise,    \* this.connectPromise: id of the attempt's promise, 0 = null
    reconnectAttempt,  \* this.reconnectAttempt
    heartbeatTimer,    \* this.heartbeatTimer: interval id, 0 = null
    awaitingResponse,  \* this.awaitingResponse
    manualClose,       \* this.manualClose
    queue,             \* this.queue: sequence of request ids
    sock,              \* every WebSocket created so far (id = index)
    req,               \* every sendCommand call made so far (id = index)
    waiters,           \* sendCommand calls suspended at `await this.connect()`
    rtimers,           \* pending backoff timers of scheduleReconnect
    hbTimers,          \* active setInterval timers
    timerq,            \* pending setTimeout(requestTimeoutMs) timers, oldest first
    settled,           \* log of resolve/reject invocations on sendCommand promises
    events,            \* last 'reconnecting' event, log of 'heartbeat' events and
                       \* parity of the number of 'error' events emitted
    hist,              \* history variables the properties are stated with
    budget,            \* number of sockets this exploration may create
    reqBudget          \* number of sendCommand calls this exploration may make

vars == << opts, status, ws, connectPromise, reconnectAttempt, heartbeatTimer,
           awaitingResponse, manualClose, queue, sock, req, waiters, rtimers,
           hbTimers, timerq, settled, events, hist, budget, reqBudget >>

\* The whole state as one record, so that the code's sequential statements
\* compose as function applications.
Cur == [ opts |-> opts, status |-> status, ws |-> ws,
         connectPromise |-> connectPromise,
         reconnectAttempt |-> reconnectAttempt,
         heartbeatTimer |-> heartbeatTimer,
         awaitingResponse |-> awaitingResponse, manualClose |-> manualClose,
         queue |-> queue, sock |-> sock, req |-> req, waiters |-> waiters,
         rtimers |-> rtimers, hbTimers |-> hbTimers, timerq |-> timerq,
         settled |-> settled, events |-> events, hist |-> hist ]

\* a request that is neither queued, nor waiting for connect(), nor has a
\* deadline pending is never read again by the client: only the log of its
\* completions is kept
Gone == [payload |-> "", probe |-> FALSE, awaits |-> 0, written |-> FALSE]

Live(S, r) ==
    \/ \E i \in 1..Len(S.queue) : S.queue[i] = r
    \/ \E i \in 1..Len(S.waiters) : S.waiters[i] = r
    \/ \E i \in 1..Len(S.timerq) : S.timerq[i] = [kind |-> "request", id |-> r]

Forget(S) ==
    [S EXCEPT !.req = [r \in 1..Len(S.req) |->
                          IF Live(S, r) THEN S.req[r] ELSE Gone]]

Commit(T) ==
    \E S \in {Forget(T)} :
    /\ opts' = S.opts
    /\ status' = S.status
    /\ ws' = S.ws
    /\ connectPromise' = S.connectPromise
    /\ reconnectAttempt' = S.reconnectAttempt
    /\ heartbeatTimer' = S.heartbeatTimer
    /\ awaitingResponse' = S.awaitingResponse
    /\ manualClose' = S.manualClose
    /\ queue' = S.queue
    /\ sock' = S.sock
    /\ req' = S.req
    /\ waiters' = S.waiters
    /\ rtimers' = S.rtimers
    /\ hbTimers' = S.hbTimers
    /\ timerq' = S.timerq
    /\ settled' = S.settled
    /\ events' = S.events
    /\ hist' = S.hist
    /\ UNCHANGED << budget, reqBudget >>

NoEvent == [attempt |-> 0, delayMs |-> 0]

\* ticks: 0 when the exploration observes the heartbeat ticks (hist.ticks is
\* then the parity of their number), -1 when it does not
InitFull(O, sockets, requests, ticks) ==
    /\ opts \in O
    /\ budget = sockets
    /\ reqBudget = requests
    /\ status = "idle"
    /\ ws = 0
    /\ connectPromise = 0
    /\ reconnectAttempt = 0
    /\ heartbeatTimer = 0
    /\ awaitingResponse = FALSE
    /\ manualClose = FALSE
    /\ queue = << >>
    /\ sock = << >>
    /\ req = << >>
    /\ waiters = << >>
    /\ rtimers = 0
    /\ hbTimers = {}
    /\ timerq = << >>
    /\ settled = << >>
    /\ events = [reconnecting |-> NoEvent, heartbeat |-> << >>, errors |-> 0]
    /\ hist = [suppressed |-> -1, schedSinceOpen |-> 0, schedK |-> 0,
               enq |-> << >>, ticks |-> ticks]

InitWith(O, sockets) == InitFull(O, sockets, MaxReqs, -1)

Init == InitWith(Options, MaxSockets)

\* --------------------------------------------------------------- helpers
Min(a, b) == IF a <= b THEN a ELSE b

RECURSIVE Pow2(_)
Pow2(n) == IF n = 0 THEN 1 ELSE 2 * Pow2(n - 1)

IsOpen(S, s) == s # 0 /\ S.sock[s].readyState = "OPEN"

\* WebSocket.close(code): a no-op on a socket already closing or closed;
\* otherwise the socket starts closing and its close event is delivered later.
\* closeCode is the code of the close() call, 0 while close() was never called.
wsClose(S, s, code) ==
    IF S.sock[s].readyState \in {"CLOSING", "CLOSED"} THEN S
    ELSE [S EXCEPT !.sock[s].readyState = "CLOSING",
                   !.sock[s].closeCode = code]

\* globalThis.setTimeout(fn, this.opts.requestTimeoutMs)
armTimer(S, kind, id) ==
    [S EXCEPT !.timerq = Append(@, [kind |-> kind, id |-> id])]

unqueueTimer(S, kind, id) ==
    [S EXCEPT !.timerq = SelectSeq(@, LAMBDA t : ~(t.kind = kind /\ t.id = id))]

\* mutant: the deadline is never cancelled
clearRequestTimerForgotten(S, r) == S

\* globalThis.clearTimeout on a request's deadline timer
clearRequestTimer(S, r) == unqueueTimer(S, "request", r)

\* globalThis.clearTimeout on the connect guard of socket s
clearConnectTimer(S, s) == unqueueTimer(S, "connect", s)

TimerPending(S, kind, id) ==
    \E i \in 1..Len(S.timerq) : S.timerq[i] = [kind |-> kind, id |-> id]

\* one invocation of resolve()/reject() of the promise sendCommand returned
settle(S, r, how, re) ==
    [S EXCEPT !.settled = Append(@, [id |-> r, how |-> how, re |-> re])]

\* ------------------------------------------------------------ internals
flushQueue(S) ==
    IF ~IsOpen(S, S.ws) THEN S
    ELSE IF S.awaitingResponse THEN S
    ELSE IF S.queue = << >> THEN S
    ELSE LET front == Head(S.queue) IN
         [S EXCEPT !.awaitingResponse = TRUE,
                   !.sock[S.ws].sent = Append(@, front),
                   !.req[front].written = TRUE]

stopHeartbeat(S) ==
    IF S.heartbeatTimer # 0
    THEN [S EXCEPT !.hbTimers = @ \ {S.heartbeatTimer}, !.heartbeatTimer = 0]
    ELSE S

\* the interval created when socket s opens is identified by s
startHeartbeat(S, s) ==
    IF ~S.opts.heartbeat THEN S
    ELSE LET S1 == stopHeartbeat(S) IN
         [S1 EXCEPT !.heartbeatTimer = s, !.hbTimers = @ \cup {s}]

\* mutant: the stale socket is closed whether or not reconnect is enabled
maybeReconnectAlways(S) ==
    IF IsOpen(S, S.ws) THEN wsClose(S, S.ws, STALE_CODE) ELSE S

maybeReconnectOnTimeout(S) ==
    IF IsOpen(S, S.ws) /\ S.opts.reconnect THEN wsClose(S, S.ws, STALE_CODE)
    ELSE S

\* mutant: the delay is not capped by reconnectMaxDelayMs
scheduleReconnectUncapped(S, rnd) ==
    LET k == S.reconnectAttempt
        base == S.opts.delays.initial * Pow2(k)
        delay == base + ((base * S.opts.jitterPct * rnd) \div (100 * RandDen))
    IN [S EXCEPT !.status = "reconnecting",
                 !.reconnectAttempt = k + 1,
                 !.events.reconnecting =
                     [attempt |-> k + 1, delayMs |-> delay],
                 !.hist.schedK = S.hist.schedSinceOpen,
                 !.hist.schedSinceOpen = @ + 1,
                 !.rtimers = @ + 1]

\* mutant: the 'reconnecting' event is emitted but no timer is armed
scheduleReconnectNoTimer(S, rnd) ==
    LET k == S.reconnectAttempt
        base == Min(S.opts.delays.max, S.opts.delays.initial * Pow2(k))
        delay == base + ((base * S.opts.jitterPct * rnd) \div (100 * RandDen))
    IN [S EXCEPT !.status = "reconnecting",
                 !.reconnectAttempt = k + 1,
                 !.events.reconnecting =
                     [attempt |-> k + 1, delayMs |-> delay],
                 !.hist.schedK = S.hist.schedSinceOpen,
                 !.hist.schedSinceOpen = @ + 1]

\* rnd / RandDen is the value Math.random() returned
scheduleReconnect(S, rnd) ==
    LET k == S.reconnectAttempt
        base == Min(S.opts.delays.max, S.opts.delays.initial * Pow2(k))
        \* floor(base + base * jitter * random), jitter = jitterPct / 100
        delay == base + ((base * S.opts.jitterPct * rnd) \div (100 * RandDen))
    IN [S EXCEPT !.status = "reconnecting",
                 !.reconnectAttempt = k + 1,
                 !.events.reconnecting =
                     [attempt |-> k + 1, delayMs |-> delay],
                 !.hist.schedK = S.hist.schedSinceOpen,
                 !.hist.schedSinceOpen = @ + 1,
                 !.rtimers = @ + 1]

\* a WebSocket just constructed by connect(), its connect guard armed and
\* the promise of the attempt pending; sent is what was written to it and
\* answered how many of those the server has replied to
NewSocket ==
    [readyState |-> "CONNECTING", closeCode |-> 0, promise |-> "pending",
     sent |-> << >>, answered |-> 0]

\* a closed WebSocket dispatches no further event and is never read again:
\* only the promise of its attempt (and its connect guard, in timerq)
\* outlive it
Closed(sk) ==
    [readyState |-> "CLOSED", closeCode |-> 0, promise |-> sk.promise,
     sent |-> << >>, answered |-> 0]

connect(S) ==
    IF IsOpen(S, S.ws) THEN S
    ELSE IF S.connectPromise # 0 THEN S
    ELSE LET s == Len(S.sock) + 1 IN
         armTimer([S EXCEPT !.manualClose = FALSE,
                            !.status = "connecting",
                            !.sock = Append(@, NewSocket),
                            !.ws = s,
                            !.connectPromise = s],
                  "connect", s)

\* TRUE iff connect() would construct a WebSocket
connectCreates(S) == ~IsOpen(S, S.ws) /\ S.connectPromise = 0

\* ----------------------------------------------------------- sendCommand
NewRequest(payload, probe, awaits) ==
    [payload |-> payload, probe |-> probe, awaits |-> awaits,
     written |-> FALSE]

\* mutant: the payload is written at once whenever the socket is open
enqueueEager(S, r) ==
    LET S1 == armTimer([S EXCEPT !.req[r].awaits = 0,
                                 !.queue = Append(@, r),
                                 !.hist.enq = Append(@, r)],
                       "request", r)
    IN IF IsOpen(S1, S1.ws)
       THEN [S1 EXCEPT !.awaitingResponse = TRUE,
                       !.sock[S1.ws].sent = Append(@, r),
                       !.req[r].written = TRUE]
       ELSE S1

\* the promise executor of sendCommand: arm the deadline, push, flush
enqueue(S, r) ==
    flushQueue(armTimer([S EXCEPT !.req[r].awaits = 0,
                                  !.queue = Append(@, r),
                                  !.hist.enq = Append(@, r)],
                        "request", r))

\* mutant: sendCommand starts the connect but does not wait for it
sendCommandNoWait(S, payload, probe) ==
    LET r == Len(S.req) + 1
        S1 == IF ~IsOpen(S, S.ws) THEN connect(S) ELSE S
    IN enqueue([S1 EXCEPT !.req = Append(@, NewRequest(payload, probe, 0))], r)

\* sendCommand up to its first suspension; probe marks the heartbeat's call
sendCommand(S, payload, probe) ==
    LET r == Len(S.req) + 1 IN
    IF ~IsOpen(S, S.ws)
    THEN LET S1 == connect(S) IN
         [S1 EXCEPT !.req = Append(@, NewRequest(payload, probe, S1.connectPromise)),
                    !.waiters = Append(@, r)]
    ELSE enqueue([S EXCEPT !.req = Append(@, NewRequest(payload, probe, 0))], r)

\* continuations of `await this.connect()` released when promise p resolves,
\* in the order the calls were made
RECURSIVE resumeWaiters(_, _, _)
resumeWaiters(S, p, i) ==
    IF i > Len(S.waiters) THEN
        [S EXCEPT !.waiters = SelectSeq(@, LAMBDA r : S.req[r].awaits # 0)]
    ELSE LET r == S.waiters[i] IN
         IF S.req[r].awaits = p
         THEN resumeWaiters(enqueue(S, r), p, i + 1)
         ELSE resumeWaiters(S, p, i + 1)

\* this.eventEmitter.emit('heartbeat', ...) of the tick that issued probe r;
\* the ok: false event carries no rttMs (0 here)
emitHeartbeat(S, r, ok, rtt) ==
    [S EXCEPT !.events.heartbeat = Append(@, [of |-> r, ok |-> ok, rttMs |-> rtt])]

\* the try block of the heartbeat callback after the probe r resolved;
\* elapsed is nowMs() - t0, rounded
heartbeatOk(S, r, elapsed) ==
    emitHeartbeat(S, r, TRUE, IF elapsed > 0 THEN elapsed ELSE 0)

\* the catch block of the heartbeat callback of probe r
heartbeatFailed(S, r) ==
    maybeReconnectOnTimeout(emitHeartbeat(S, r, FALSE, 0))

\* the catch blocks of the probes among the requests q[i..] just rejected
RECURSIVE probesFailed(_, _, _)
probesFailed(S, q, i) ==
    IF i > Len(q) THEN S
    ELSE probesFailed(IF S.req[q[i]].probe THEN heartbeatFailed(S, q[i]) ELSE S,
                      q, i + 1)

\* continuations of `await this.connect()` released when promise p rejects:
\* each sendCommand fails with the connect failure
RECURSIVE failWaiters(_, _, _)
failWaiters(S, p, i) ==
    IF i > Len(S.waiters) THEN
        [S EXCEPT !.waiters = SelectSeq(@, LAMBDA r : S.req[r].awaits # 0)]
    ELSE LET r == S.waiters[i] IN
         IF S.req[r].awaits = p
         THEN LET S1 == settle([S EXCEPT !.req[r].awaits = 0], r, "connect-failed", 0)
              IN failWaiters(IF S.req[r].probe THEN heartbeatFailed(S1, r) ELSE S1,
                             p, i + 1)
         ELSE failWaiters(S, p, i + 1)

\* ------------------------------------------------------- socket observers
\* mutant: a successful open leaves the reconnect counter alone
onOpenKeepsAttempt(S, s) ==
    LET S1 == [S EXCEPT !.status = "open", !.hist.schedSinceOpen = 0]
        S2 == startHeartbeat(flushQueue(S1), s)
        S3 == [S2 EXCEPT !.connectPromise = 0,
                         !.sock[s].promise =
                             IF @ = "pending" THEN "resolved" ELSE @]
    IN resumeWaiters(clearConnectTimer(S3, s), s, 1)

onOpen(S, s) ==
    LET S1 == [S EXCEPT !.status = "open",
                        !.reconnectAttempt = 0,
                        !.hist.schedSinceOpen = 0]
        S2 == startHeartbeat(flushQueue(S1), s)
        S3 == [S2 EXCEPT !.connectPromise = 0,
                         !.sock[s].promise =
                             IF @ = "pending" THEN "resolved" ELSE @]
        \* the once-listener of 'open': clearTimeout(connectTimeout)
        S4 == clearConnectTimer(S3, s)
    IN resumeWaiters(S4, s, 1)

\* re is the request the server is answering with this message; elapsed is
\* the time the heartbeat callback measures if the message resolves a probe
onMessage(S, re, elapsed) ==
    LET S1 == [S EXCEPT !.awaitingResponse = FALSE] IN
    IF S1.queue # << >>
    THEN LET front == Head(S1.queue)
             S2 == settle(clearRequestTimer([S1 EXCEPT !.queue = Tail(@)], front),
                          front, "reply", re)
             S3 == flushQueue(S2)
         IN IF S.req[front].probe THEN heartbeatOk(S3, front, elapsed) ELSE S3
    ELSE flushQueue(S1)

\* mutant: `if` for `while`, only the head is failed
drainQueueHeadOnly(S) ==
    IF S.queue = << >> THEN S
    ELSE LET it == Head(S.queue) IN
         settle(clearRequestTimer([S EXCEPT !.queue = Tail(@)], it), it, "closed", 0)

\* while (this.queue.length) { shift; clearTimeout; reject }
RECURSIVE drainQueue(_)
drainQueue(S) ==
    IF S.queue = << >> THEN S
    ELSE LET it == Head(S.queue) IN
         drainQueue(settle(clearRequestTimer([S EXCEPT !.queue = Tail(@)], it),
                           it, "closed", 0))

onClose(S, s, rnd) ==
    LET S1 == stopHeartbeat([S EXCEPT !.status = "closed"])
        S2 == drainQueue(S1)
        S3 == [S2 EXCEPT !.ws = 0, !.connectPromise = 0]
        S4 == IF ~S3.manualClose /\ S3.opts.reconnect
              THEN scheduleReconnect(S3, rnd) ELSE S3
    IN probesFailed(S4, S.queue, 1)

\* mutant: an error notification fails the pending requests
onErrorDrains(S) ==
    drainQueue([S EXCEPT !.events.errors = 1 - @, !.awaitingResponse = FALSE])

\* emit('error', e) and a log line
onError(S) ==
    [S EXCEPT !.events.errors = 1 - @]

\* --------------------------------------------------------------- timers
\* mutant: the timed-out request is left in the queue
requestTimeoutKeeps(S, r) ==
    LET S2 == settle(S, r, "timeout", 0)
        S3 == maybeReconnectOnTimeout(S2)
    IN IF S.req[r].probe THEN heartbeatFailed(S3, r) ELSE S3

\* the deadline callback of request r
requestTimeout(S, r) ==
    LET S1 == IF S.queue # << >> /\ S.req[Head(S.queue)].payload = S.req[r].payload
              THEN [S EXCEPT !.queue = Tail(@), !.awaitingResponse = FALSE]
              ELSE S
        S2 == settle(S1, r, "timeout", 0)
        S3 == maybeReconnectOnTimeout(S2)
    IN IF S.req[r].probe THEN heartbeatFailed(S3, r) ELSE S3

\* the connect guard of the attempt that created socket s
connectTimeout(S, s) ==
    IF S.status # "open"
    THEN LET S1 == wsClose(S, s, CONNECT_TIMEOUT_CODE)
             S2 == [S1 EXCEPT !.connectPromise = 0,
                              !.sock[s].promise =
                                  IF @ = "pending" THEN "rejected" ELSE @]
         IN IF S.sock[s].promise = "pending" THEN failWaiters(S2, s, 1) ELSE S2
    ELSE S

disconnect(S, code) ==
    LET S1 == stopHeartbeat([S EXCEPT !.manualClose = TRUE, !.status = "closing"])
        S2 == IF S1.ws # 0 THEN wsClose(S1, S1.ws, code) ELSE S1
    IN [S2 EXCEPT !.ws = 0, !.status = "closed", !.connectPromise = 0]

\* the interval callback
heartbeatTick(S) ==
    IF S.awaitingResponse \/ Len(S.queue) > 0 THEN S
    ELSE sendCommand(S, "network", TRUE)

\* setTimeout callbacks of equal delay (requestTimeoutMs) run in the order
\* they were armed: the oldest pending timer is the only one that may fire
MayFire(kind, id) ==
    timerq # << >> /\ Head(timerq) = [kind |-> kind, id |-> id]

\* ============================================================== actions
Sockets == 1..Len(sock)
Requests == 1..Len(req)
\* nowMs() - t0 as the heartbeat callback may measure it (Date.now() can
\* step backwards); only read when the message resolves a probe
Elapsed ==
    IF queue # << >> /\ req[Head(queue)].probe THEN {-1, 0, 1} ELSE {0}

\* the values of Math.random() that make a difference to the delay
Rnd == IF opts.jitterPct = 0 THEN {0} ELSE 0..(RandDen - 1)

RoomFor(needsSocket, needsRequest) ==
    /\ needsSocket => Len(sock) < budget
    /\ needsRequest => Len(req) < reqBudget

Connect ==
    /\ RoomFor(connectCreates(Cur), FALSE)
    /\ Commit(connect([Cur EXCEPT !.hist.suppressed = -1]))

Disconnect ==
    \E code \in {NORMAL_CODE} :
        /\ code \in Nat
        /\ Commit(disconnect([Cur EXCEPT !.hist.suppressed = Len(sock)], code))

SendCommand ==
    \E payload \in Payloads :
        /\ RoomFor(connectCreates(Cur), TRUE)
        /\ Commit(sendCommand([Cur EXCEPT !.hist.suppressed = -1], payload, FALSE))

\* the transport reports the connection established
SocketOpen ==
    \E s \in Sockets :
        /\ sock[s].readyState = "CONNECTING"
        /\ Commit(onOpen([Cur EXCEPT !.sock[s].readyState = "OPEN"], s))

\* the transport delivers the close event: the connection was lost, was
\* closed by the peer, or a close() call completed
SocketClosedAt(s, rnd) ==
    /\ sock[s].readyState # "CLOSED"
    /\ Commit(onClose([Cur EXCEPT !.sock[s] = Closed(@)], s, rnd))

SocketClosed ==
    \E s \in Sockets, rnd \in Rnd : SocketClosedAt(s, rnd)

\* the close event that completes a close() call on socket s
CloseCompletes(s) ==
    /\ s \in Sockets
    /\ sock[s].readyState = "CLOSING"
    /\ \E rnd \in Rnd : SocketClosedAt(s, rnd)

\* the server answers the oldest request it has not answered yet on s;
\* message events are only dispatched while the socket is OPEN
ServerReply ==
    \E s \in Sockets, elapsed \in Elapsed :
        /\ sock[s].readyState = "OPEN"
        /\ sock[s].answered < Len(sock[s].sent)
        /\ Commit(onMessage([Cur EXCEPT !.sock[s].answered = @ + 1],
                            sock[s].sent[sock[s].answered + 1], elapsed))

\* the transport notifies an error on a socket whose listeners are attached
SocketError ==
    \E s \in Sockets :
        /\ sock[s].readyState # "CLOSED"
        /\ Commit(onError(Cur))

RequestTimeout ==
    \E r \in Requests :
        /\ MayFire("request", r)
        /\ Commit(requestTimeout(unqueueTimer(Cur, "request", r), r))

ConnectTimeout ==
    \E s \in Sockets :
        /\ MayFire("connect", s)
        /\ Commit(connectTimeout(unqueueTimer(Cur, "connect", s), s))

\* setTimeout(() => this.connect().catch(() => {}), delay)
ReconnectTimer ==
    /\ rtimers > 0
    /\ RoomFor(connectCreates(Cur), FALSE)
    /\ Commit(connect([Cur EXCEPT !.rtimers = @ - 1]))

HeartbeatTick ==
    \E t \in hbTimers :
        /\ LET idle == ~awaitingResponse /\ Len(queue) = 0 IN
           RoomFor(idle /\ connectCreates(Cur), idle)
        /\ Commit(heartbeatTick([Cur EXCEPT !.hist.ticks = IF @ < 0 THEN @ ELSE 1 - @]))

\* a client without heartbeat (heartbeatIntervalMs: 0)
Next ==
    \/ Connect
    \/ Disconnect
    \/ SendCommand
    \/ SocketOpen
    \/ SocketClosed
    \/ ServerReply
    \/ RequestTimeout
    \/ ConnectTimeout
    \/ ReconnectTimer

Spec == Init /\ [][Next]_vars

\* some socket is connecting: SocketOpen is enabled exactly then
Connecting == \E s \in Sockets : sock[s].readyState = "CONNECTING"

\* a close() call on socket s is in progress: CloseCompletes(s) is enabled
\* exactly then
Closing(s) == s \in Sockets /\ sock[s].readyState = "CLOSING"

\* the transport opens a socket that stays connecting: weak fairness of
\* SocketOpen, written out with Connecting for ENABLED <<SocketOpen>>_vars
OpenFair == []<>~Connecting \/ []<><<SocketOpen>>_vars

\* a close() call does complete: weak fairness of CloseCompletes(s), written
\* out with Closing(s) for ENABLED <<CloseCompletes(s)>>_vars
CloseFair ==
    \A s \in 1..(MaxSockets + 1) :
        []<>~Closing(s) \/ []<><<CloseCompletes(s)>>_vars

\* the same client on a transport that notifies errors
ErrNext ==
    \/ Connect
    \/ Disconnect
    \/ SendCommand
    \/ SocketOpen
    \/ SocketClosed
    \/ SocketError
    \/ ServerReply
    \/ RequestTimeout
    \/ ConnectTimeout
    \/ ReconnectTimer

ErrSpec == Init /\ [][ErrNext]_vars

\* some setTimeout(requestTimeoutMs) timer is armed: its callback is enabled
\* exactly then
TimerArmed == timerq # << >>

\* the step runs the callback of a request deadline or of a connect guard
TimerFires == RequestTimeout \/ ConnectTimeout

\* an armed timer does fire: weak fairness of TimerFires, written out with
\* TimerArmed for ENABLED <<TimerFires>>_vars
TimerFair == []<>~TimerArmed \/ []<><<TimerFires>>_vars

\* every timer that is due fires, connecting sockets do open and close()
\* calls do complete
FairSpec ==
    Spec /\ WF_vars(ReconnectTimer) /\ TimerFair /\ OpenFair /\ CloseFair

\* the same client with one more socket to create
WideInit == InitWith(Options, MaxSockets + 1)

WideSpec == WideInit /\ [][Next]_vars

\* backoff timers that are due do fire, connecting sockets do open and
\* close() calls do complete
FairWideSpec == WideSpec /\ WF_vars(ReconnectTimer) /\ OpenFair /\ CloseFair

\* a client with a heartbeat
HbInit == InitWith(HbOptions, MaxSockets)

HbNext ==
    \/ Connect
    \/ Disconnect
    \/ SendCommand
    \/ SocketOpen
    \/ SocketClosed
    \/ ServerReply
    \/ RequestTimeout
    \/ ConnectTimeout
    \/ ReconnectTimer
    \/ HeartbeatTick

HbSpec == HbInit /\ [][HbNext]_vars

\* timers that are due do fire, and a close() call does complete
FairHbSpec == HbSpec /\ WF_vars(ReconnectTimer) /\ CloseFair

\* the client with a heartbeat and one more command to issue
LongHbInit == InitFull(HbOptions, MaxSockets, MaxReqs + 1, -1)

LongHbSpec == LongHbInit /\ [][HbNext]_vars

\* the client with a heartbeat whose ticks are observed
TickInit == InitFull(HbOptions, MaxSockets, MaxReqs, 0)

TickSpec == TickInit /\ [][HbNext]_vars

\* a client that issues no command, over every configuration of the backoff
BackoffInit == InitWith(BackoffOptions, MaxSockets + 1)

BackoffNext ==
    \/ Connect
    \/ Disconnect
    \/ SocketOpen
    \/ SocketClosed
    \/ ConnectTimeout
    \/ ReconnectTimer

BackoffSpec == BackoffInit /\ [][BackoffNext]_vars

\* ====================================================== properties
InQueue(r) == \E i \in 1..Len(queue) : queue[i] = r
Waiting(r) == \E i \in 1..Len(waiters) : waiters[i] = r
Enqueued(r) == \E i \in 1..Len(hist.enq) : hist.enq[i] = r
EnqPos(r) == CHOOSE i \in 1..Len(hist.enq) : hist.enq[i] = r
Completions(r) == Cardinality({i \in 1..Len(settled) : settled[i].id = r})
LiveSockets == {s \in Sockets : sock[s].readyState \in {"CONNECTING", "OPEN"}}

\* the deadline of request r is armed after the step
ArmedAfter(r) ==
    \E i \in 1..Len(timerq') : timerq'[i] = [kind |-> "request", id |-> r]

\* the completions a step appends to the log
NewlySettled == SubSeq(settled', Len(settled) + 1, Len(settled'))

\* ---------------------------------------------------------------- C1
\* C1: payloads are written to a socket in enqueue order, and every message
\* that resolves a request is the reply to that very request, which was the
\* oldest one written and not yet answered (so its payload had been written).
C1_FifoMatching ==
    /\ \A s \in Sockets : \A i, j \in 1..Len(sock[s].sent) :
           i < j => EnqPos(sock[s].sent[i]) < EnqPos(sock[s].sent[j])
    /\ \A i \in 1..Len(settled) :
           settled[i].how = "reply" => settled[i].re = settled[i].id

\* ---------------------------------------------------------------- C2
\* C2: at most one queued request has been written to the wire, and it is
\* the head of the queue: a later request is written only once every earlier
\* one has left the queue (by reply, timeout or close).
C2_SingleFlight ==
    /\ Cardinality({i \in 1..Len(queue) : req[queue[i]].written}) <= 1
    /\ \A i \in 1..Len(queue) : req[queue[i]].written => i = 1

\* two commands issued back to back: the first is on the wire, the second waits
C2_Witness ==
    /\ Len(queue) = 2
    /\ req[queue[1]].written
    /\ ~req[queue[2]].written
    /\ awaitingResponse

\* ---------------------------------------------------------------- C3
\* C3: a request's completion fires exactly once: while it is queued (or
\* waits for connect) it has not fired; once it has left the queue it has
\* fired once, by reply, timeout or close; it is queued at most once and
\* never again afterwards; and no deadline stays armed for a request that
\* has left the queue.
C3_ExactlyOnce ==
    /\ \A r \in Requests :
        /\ Completions(r) <= 1
        /\ (InQueue(r) \/ Waiting(r)) => Completions(r) = 0
        /\ (Enqueued(r) /\ ~InQueue(r)) =>
               \E i \in 1..Len(settled) :
                   settled[i].id = r /\ settled[i].how \in {"reply", "timeout", "closed"}
        /\ TimerPending(Cur, "request", r) => InQueue(r)
    /\ \A i, j \in 1..Len(queue) : queue[i] = queue[j] => i = j
    /\ \A i, j \in 1..Len(hist.enq) : hist.enq[i] = hist.enq[j] => i = j

\* one request was answered and another one was failed by a close or a timeout
C3_Witness ==
    /\ \E i \in 1..Len(settled) : settled[i].how = "reply"
    /\ \E i \in 1..Len(settled) : settled[i].how \in {"closed", "timeout"}
    /\ queue = << >>

\* ---------------------------------------------------------------- C4
\* C4: the step in which the deadline of request r fires fails r with a
\* 'timed out' error, removes exactly r (the head) from the queue and clears
\* the in-flight flag; r is not in the queue afterwards.
C4_TimeoutStep(r) ==
    /\ TimerPending(Cur, "request", r)
    /\ Len(settled') > Len(settled)
    /\ settled'[Len(settled) + 1] = [id |-> r, how |-> "timeout", re |-> 0]

C4_Timeout ==
    [][\A r \in Requests :
          C4_TimeoutStep(r) =>
              /\ queue # << >> /\ Head(queue) = r
              /\ queue' = Tail(queue)
              /\ \A i \in 1..Len(queue') : queue'[i] # r
              /\ ~awaitingResponse'
              /\ NewlySettled = << [id |-> r, how |-> "timeout", re |-> 0] >>
              /\ ~ArmedAfter(r)]_vars

\* the written head timed out while a second request was queued behind it
C4_Witness ==
    /\ Len(settled) = 1
    /\ settled[1].how = "timeout"
    /\ Len(queue) = 1
    /\ ~awaitingResponse

\* ---------------------------------------------------------------- C5
\* C5: the step that delivers a socket's close event fails every queued
\* request with 'Connection closed', once each and in queue order, cancels
\* their deadlines, leaves the queue empty and clears the socket reference.
C5_CloseStep ==
    \E s \in Sockets : sock[s].readyState # "CLOSED" /\ sock'[s].readyState = "CLOSED"

C5_CloseDrains ==
    [][C5_CloseStep =>
          /\ queue' = << >>
          /\ ws' = 0
          /\ NewlySettled =
                 [i \in 1..Len(queue) |-> [id |-> queue[i], how |-> "closed", re |-> 0]]
          /\ \A i \in 1..Len(queue) : ~ArmedAfter(queue[i])]_vars

\* a close has drained two queued requests
C5_Witness ==
    /\ Len(settled) = 2
    /\ settled[1] = [id |-> 1, how |-> "closed", re |-> 0]
    /\ settled[2] = [id |-> 2, how |-> "closed", re |-> 0]
    /\ ws = 0

\* ---------------------------------------------------------------- C6
\* C6: from disconnect() until the caller's next connect() or sendCommand(),
\* status is 'closed' and no socket is created.
C6_ManualCloseSticks ==
    hist.suppressed >= 0 => (status = "closed" /\ Len(sock) = hist.suppressed)

\* ---------------------------------------------------------------- C7
\* C7: at most one socket is being opened or is open at any time.
C7_OneSocket == Cardinality(LiveSockets) <= 1

\* ---------------------------------------------------------------- C8
\* C8: when the connect guard of an attempt fires (its socket never opened),
\* the socket is force-closed (with code 4000 if it was still connecting)
\* and the attempt's outcome fails; when the socket opens, its connect guard
\* is cancelled.
ConnectGuardAfter(s) ==
    \E i \in 1..Len(timerq') : timerq'[i] = [kind |-> "connect", id |-> s]

C8_GuardFires(s) ==
    /\ TimerPending(Cur, "connect", s)
    /\ ~ConnectGuardAfter(s)
    /\ sock'[s].readyState # "OPEN"

C8_ConnectTimeout ==
    [][\A s \in Sockets :
          /\ C8_GuardFires(s) =>
                 /\ sock'[s].promise = "rejected"
                 /\ sock'[s].readyState \in {"CLOSING", "CLOSED"}
                 /\ sock[s].readyState = "CONNECTING" =>
                        sock'[s].closeCode = CONNECT_TIMEOUT_CODE
          /\ (sock[s].readyState = "CONNECTING" /\ sock'[s].readyState = "OPEN") =>
                 ~ConnectGuardAfter(s)]_vars

\* ---------------------------------------------------------------- C9
\* C9: a socket is closed with code 4001 exactly in the steps in which a
\* request (a heartbeat probe included) times out while the client's
\* socket is open and reconnect is enabled; and after such a close a new
\* socket is created, unless the caller disconnects (or the exploration's
\* socket budget is used up).
C9_TimeoutStep ==
    \E i \in 1..Len(NewlySettled) : NewlySettled[i].how = "timeout"

C9_StaleClosed(s) ==
    /\ sock[s].readyState # "CLOSING"
    /\ sock'[s].readyState = "CLOSING"
    /\ sock'[s].closeCode = STALE_CODE

C9_StaleClose ==
    /\ [][\A s \in Sockets :
             C9_StaleClosed(s) <=>
                 (C9_TimeoutStep /\ s = ws /\ sock[s].readyState = "OPEN"
                                 /\ opts.reconnect)]_vars
    /\ \A s \in 1..(MaxSockets + 1) :
           (s \in Sockets /\ sock[s].readyState = "CLOSING"
                          /\ sock[s].closeCode = STALE_CODE)
               ~> (Len(sock) > s \/ hist.suppressed >= 0 \/ Len(sock) >= budget)

\* a request timed out and the open socket is being closed with 4001, with
\* room left to create the next socket
C9_Witness ==
    /\ \E i \in 1..Len(settled) : settled[i].how = "timeout"
    /\ ws # 0
    /\ sock[ws].readyState = "CLOSING"
    /\ sock[ws].closeCode = STALE_CODE
    /\ Len(sock) < budget

\* --------------------------------------------------------------- C10
BaseK(k) == Min(opts.delays.max, opts.delays.initial * Pow2(k))

OpenStep ==
    \E s \in Sockets : sock[s].readyState = "CONNECTING" /\ sock'[s].readyState = "OPEN"

\* the step arms a backoff timer (scheduleReconnect ran)
ScheduleStep == rtimers' = rtimers + 1

\* C11: the reconnect counter is 0 right after every socket open, grows by
\* exactly one in every step that schedules a reconnect, and no other step
\* (connect, disconnect, sendCommand, reply, timeouts, backoff timer)
\* changes it.
C11_AttemptCounter ==
    [][/\ OpenStep => reconnectAttempt' = 0
       /\ ScheduleStep => reconnectAttempt' = reconnectAttempt + 1
       /\ ~(OpenStep \/ ScheduleStep) => reconnectAttempt' = reconnectAttempt]_vars

\* a reconnect was scheduled (attempt 1) and the next socket has opened
C11_Witness ==
    /\ status = "open"
    /\ reconnectAttempt = 0
    /\ events.reconnecting.attempt = 1

\* --------------------------------------------------------------- C12
\* the requests the step appends to the queue, in order
NewlyEnqueued == SubSeq(hist.enq', Len(hist.enq) + 1, Len(hist.enq'))

\* C12: a heartbeat probe is only ever enqueued into an empty queue with the
\* in-flight flag clear (it is the first request the step enqueues, and
\* queue and flag were clear before), and in every state no probe sits
\* behind a real command in the queue.
C12_ProbeIntoIdle ==
    /\ [][\A i \in 1..Len(NewlyEnqueued) :
             req'[NewlyEnqueued[i]].probe =>
                 /\ i = 1
                 /\ queue = << >>
                 /\ ~awaitingResponse]_vars
    /\ [](\A i, j \in 1..Len(queue) :
             (i < j /\ req[queue[j]].probe) => req[queue[i]].probe)

\* --------------------------------------------------------------- C13
\* the step is a tick of the heartbeat interval
TickStep == hist.ticks' # hist.ticks

\* the 'heartbeat' events the step emits
NewHeartbeats ==
    SubSeq(events.heartbeat', Len(events.heartbeat) + 1, Len(events.heartbeat'))

\* the tick issues a probe: a new 'network' command, written to the socket
ProbeWritten ==
    /\ Len(req') = Len(req) + 1
    /\ req'[Len(req')] =
           [payload |-> "network", probe |-> TRUE, awaits |-> 0, written |-> TRUE]
    /\ sock'[ws].sent = Append(sock[ws].sent, Len(req'))

\* C13: a heartbeat tick that finds the socket open and no request pending
\* (empty queue) writes a 'network' probe to the socket; a step that
\* resolves a probe with a reply emits heartbeat {ok: true} with rttMs >= 0,
\* and a step that fails a probe emits heartbeat {ok: false}.
C13_Heartbeat ==
    [][/\ (TickStep /\ IsOpen(Cur, ws) /\ queue = << >>) => ProbeWritten
       /\ \A i \in 1..Len(NewlySettled) :
              LET r == NewlySettled[i].id IN
              req[r].probe =>
                  \E j \in 1..Len(NewHeartbeats) :
                      /\ NewHeartbeats[j].of = r
                      /\ NewHeartbeats[j].ok = (NewlySettled[i].how = "reply")
                      /\ NewHeartbeats[j].rttMs >= 0]_vars

\* --------------------------------------------------------------- C14
C14_EnqueueStep ==
    \A i \in 1..Len(NewlyEnqueued) :
        LET r == NewlyEnqueued[i] IN
        IF r \in Requests
        THEN /\ Waiting(r)
             /\ sock[req[r].awaits].promise = "pending"
             /\ sock'[req[r].awaits].promise = "resolved"
        ELSE IsOpen(Cur, ws)

C14_SuspendStep ==
    \A r \in (1..Len(req')) \ Requests :
        ~IsOpen(Cur, ws) =>
            /\ \E i \in 1..Len(waiters') : waiters'[i] = r
            /\ req'[r].awaits \in 1..Len(sock')
            /\ sock'[req'[r].awaits].promise = "pending"

C14_FailStep ==
    \A r \in Requests :
        (Waiting(r) /\ sock[req[r].awaits].promise = "pending"
                    /\ sock'[req[r].awaits].promise = "rejected") =>
            /\ \E i \in 1..Len(NewlySettled) :
                   NewlySettled[i] = [id |-> r, how |-> "connect-failed", re |-> 0]
            /\ \A i \in 1..Len(hist.enq') : hist.enq'[i] # r

\* C14: a sendCommand issued while the socket is not open suspends on a
\* pending connect outcome; a request is appended to the queue only by a
\* sendCommand that found the socket open or in the step that resolves the
\* connect outcome it waits for; while it waits it is neither queued nor
\* written; and the step that rejects the connect outcome fails every
\* command waiting for it, which is never enqueued.
C14_ConnectFirst ==
    /\ [][C14_EnqueueStep /\ C14_SuspendStep /\ C14_FailStep]_vars
    /\ [](/\ \A r \in Requests :
                Waiting(r) => (~InQueue(r) /\ ~Enqueued(r) /\ ~req[r].written)
           /\ \A i \in 1..Len(settled) :
                settled[i].how = "connect-failed" => ~Enqueued(settled[i].id))

\* one command failed with its connect attempt, a later one was enqueued
\* and written after its connect succeeded
C14_Witness ==
    /\ \E i \in 1..Len(settled) : settled[i].how = "connect-failed"
    /\ \E r \in Requests : InQueue(r) /\ req[r].written /\ Enqueued(r)
    /\ waiters = << >>

\* --------------------------------------------------------------- C15
\* the step runs the callback of a backoff timer
BackoffStep == rtimers' = rtimers - 1

\* the exploration can create no further socket and none is connecting
Exhausted == Len(sock) >= budget /\ ~Connecting

C15_Step ==
    /\ (C5_CloseStep /\ ~manualClose /\ opts.reconnect) =>
           (status' = "reconnecting" /\ ScheduleStep)
    /\ BackoffStep => (IsOpen(Cur, ws)' \/ connectPromise' # 0)

\* C15: with reconnect enabled, every step that delivers a close event while
\* the manual-close flag is clear sets status 'reconnecting' and arms one
\* backoff timer; the step in which a backoff timer fires calls connect()
\* (afterwards the socket is open or a connect attempt is in flight); and
\* from status 'reconnecting' the client reaches status 'open', unless the
\* caller disconnects (or the exploration's sockets are used up).
C15_Reconnects ==
    /\ [][C15_Step]_vars
    /\ (status = "reconnecting") ~>
           (status = "open" \/ hist.suppressed >= 0 \/ Exhausted)

\* the first socket was lost, the backoff timer fired and the second opened
C15_Witness ==
    /\ status = "open"
    /\ Len(sock) = 2
    /\ sock[1].readyState = "CLOSED"
    /\ rtimers = 0
    /\ hist.schedK = 0
    /\ events.reconnecting.attempt = 1

\* --------------------------------------------------------------- C16
\* C16: a step that delivers an error notification emits one 'error' event
\* and changes nothing else: status, socket reference, sockets, queue,
\* in-flight flag, reconnect counter, connect outcome, every timer and every
\* request's completion are as before.
C16_ErrorOnlyEmits ==
    [][events.errors' # events.errors =>
          /\ events' = [events EXCEPT !.errors = 1 - @]
          /\ UNCHANGED << status, ws, sock, queue, awaitingResponse,
                          reconnectAttempt, connectPromise, manualClose,
                          heartbeatTimer, hbTimers, timerq, rtimers,
                          req, waiters, settled >>]_vars

\* an error was notified while a request was in flight and another queued:
\* both are still pending
C16_Witness ==
    /\ events.errors = 1
    /\ Len(queue) = 2
    /\ awaitingResponse
    /\ status = "open"
    /\ settled = << >>

\* --------------------------------------------------------------- C17
\* C17: between two events there is no state in which the socket is open,
\* nothing is in flight, the queue is non-empty and the payload of its head
\* has not been written.
C17_FlushedWhenIdle ==
    (IsOpen(Cur, ws) /\ ~awaitingResponse /\ queue # << >>) =>
        req[Head(queue)].written

\* --------------------------------------------------------------- C18
\* C18: whenever the in-flight flag is set, the queue is non-empty and the
\* payload of its head has been written, to the client's current socket if
\* it has one (so the flag is clear after a close has drained the queue, and
\* the first command enqueued after the reconnect is written).
C18_FlagMeansInFlight ==
    awaitingResponse =>
        /\ queue # << >>
        /\ req[Head(queue)].written
        /\ ws # 0 => \E i \in 1..Len(sock[ws].sent) : sock[ws].sent[i] = Head(queue)

\* --------------------------------------------------------------- C19
\* the step is a call of disconnect()
DisconnectStep == hist.suppressed' >= 0 /\ hist.suppressed < 0

C19_Step ==
    /\ (OpenStep /\ opts.heartbeat) => (heartbeatTimer' # 0 /\ hbTimers' # {})
    /\ (C5_CloseStep \/ DisconnectStep) => (heartbeatTimer' = 0 /\ hbTimers' = {})

\* C19: every step that opens a socket starts the heartbeat (when the
\* interval is positive), every close and every disconnect() stops it; in
\* every state at most one interval timer is active, and one is active
\* only while status is 'open' and only with a positive interval.
C19_HeartbeatLifecycle ==
    /\ [][C19_Step]_vars
    /\ [](/\ Cardinality(hbTimers) <= 1
           /\ hbTimers # {} => (status = "open" /\ opts.heartbeat))

\* --------------------------------------------------------------- C20
\* the step delivers the close event of a socket that is no longer the
\* client's socket, a newer one having taken its place
StaleCloseStep ==
    \E s \in Sockets :
        /\ sock[s].readyState # "CLOSED"
        /\ sock'[s].readyState = "CLOSED"
        /\ ws # 0
        /\ s # ws

\* C20: the close event of a superseded socket leaves the new connection
\* alone: it does not change the socket reference, the connect outcome in
\* flight, the queue or the status and schedules no reconnect; and in every
\* state status 'open' implies that the socket reference is set and its
\* socket has opened (it is open, or being closed by the client).
C20_StaleCloseIgnored ==
    /\ [][StaleCloseStep =>
             /\ UNCHANGED << ws, connectPromise, queue, status, settled >>
             /\ ~ScheduleStep]_vars
    /\ [](status = "open" =>
             (ws # 0 /\ sock[ws].readyState \in {"OPEN", "CLOSING"}))

\* --------------------------------------------------------------- C21
\* the step runs the connect guard of socket s while the outcome of a
\* newer attempt is the pending one
OldGuardFires(s) ==
    /\ C8_GuardFires(s)
    /\ connectPromise \in Sockets \ {s}
    /\ sock[connectPromise].promise = "pending"

\* the outcome of the connect attempt on socket s is pending / has settled
ConnectPending(s) == s \in Sockets /\ sock[s].promise = "pending"

ConnectSettled(s) ==
    s \in Sockets /\ sock[s].promise \in {"resolved", "rejected"}

C21_Step == \A s \in Sockets : OldGuardFires(s) => connectPromise' = connectPromise

\* C21: under fair timers every outcome returned by connect() settles in
\* the end (it is resolved or rejected), whatever happened to its socket,
\* and the step in which the connect guard of an older attempt fires
\* leaves the pending outcome of a newer attempt in place.
C21_ConnectSettles ==
    /\ [][C21_Step]_vars
    /\ \A s \in 1..MaxSockets : ConnectPending(s) ~> ConnectSettled(s)

====
